---------------------------- MODULE Spec2Model ----------------------------
(***************************************************************************)
(* Camera navigation of the 3D architecture tour                           *)
(* (src/components/scene-3d.tsx): the collision clamp of                   *)
(* useCollisionBounds, the per-frame lerp of CameraController, the frame   *)
(* callback of Scene, the preset table ROOM_VIEWS and the view state of    *)
(* Scene3D.                                                                *)
(*                                                                         *)
(* Numbers.  The program computes on IEEE doubles.  The model computes on  *)
(* fixed-point integers: 1 model unit = 0.00001 world units, so 0.5 is     *)
(* 50000 and 9.8 is 980000.  Every product is rounded to the nearest model *)
(* unit (RoundDiv), which is what a double does at its own, much finer,    *)
(* resolution.  All values stay below 2^22, all intermediate products      *)
(* below 2^31.                                                             *)
(***************************************************************************)
EXTENDS Integers, FiniteSets, Sequences, TLC

VARIABLES
    eye,          \* camera.position
    lookAt,       \* controlsRef.current.target (the OrbitControls target)
    currentView,  \* Scene3D state currentView
    rendered,     \* camera.position as handed to the renderer by the last frame
    frame,        \* number of frames run so far
    nSelects,     \* number of preset selections so far
    nInputs,      \* number of manual inputs so far
    clampAltered, \* whether Scene's frame callback took its copy branch since
                  \* the last preset selection
    pos,          \* clampPosition study: the argument
    clamped,      \* clampPosition study: clampPosition(pos)
    reclamped,    \* clampPosition study: clampPosition(clampPosition(pos))
    applied,      \* clampPosition study: number of applications so far
    lastSelected, \* the view of the navigation button pressed last
    manual,       \* the manual input applied since the last frame
    livingRoomLight, \* Scene3D state livingRoomLight
    bedroomLight,    \* Scene3D state bedroomLight
    nToggles,     \* number of presses of each light button so far
    presets       \* the ROOM_VIEWS object as the running program holds it

vars == << eye, lookAt, currentView, rendered, frame, nSelects, nInputs,
           clampAltered, pos, clamped, reclamped, applied, lastSelected,
           manual, livingRoomLight, bedroomLight, nToggles, presets >>

cameraVars == << eye, lookAt, currentView, rendered, frame, nSelects,
                 nInputs, clampAltered, lastSelected, manual, presets >>

clampVars == << pos, clamped, reclamped, applied >>

lightVars == << livingRoomLight, bedroomLight, nToggles >>

-----------------------------------------------------------------------------
(* Bounds of the model.                                                    *)

\* Inputs of the clampPosition study lie within Jitter model units of a knot.
Jitter == 1

\* Frames one run of Spec lasts.
MaxFrames == 32

\* Spec lets the user act (select a preset, turn the wheel) between two
\* frames only when the number of frames run is a multiple of EventEvery.
EventEvery == 8

\* Preset selections in one run of Spec.
MaxSelects == 2

\* Manual inputs in one run of Spec.
MaxInputs == 1

\* Wheel notches one manual input carries (all of them between two frames).
MaxNotches == 4

\* Frames one run of SpecTour lasts: enough for every transition to stop.
MaxTourFrames == 700

\* Frames one run of SpecLerp lasts.
MaxLerpFrames == 400

\* Frames one run of SpecOrbit lasts.
MaxOrbitFrames == 81

\* SpecOrbit lets the user act between two frames only when the number of
\* frames run is a multiple of OrbitEvery.
OrbitEvery == 40

\* Manual inputs in one run of SpecOrbit.
MaxOrbitInputs == 2

\* How far from a limit, in model units, a distance still counts as held at
\* the limit.
PinSlack == 50000

\* Frames one run of SpecLights lasts.
MaxLightFrames == 8
SettleFrames == 600      \* frames between two presses in the transition study
MaxTransitFrames == 1200 \* frames of the transition study

\* Presses of the two light buttons in one run of SpecLights.
MaxToggles == 4

-----------------------------------------------------------------------------
(* THREE.Vector3 as a record.                                              *)

Vec(a, b, c) == [x |-> a, y |-> b, z |-> c]

Abs(n) == IF n < 0 THEN -n ELSE n

\* n / d rounded to the nearest integer, halves away from zero (d > 0).
RoundDiv(n, d) ==
    IF n >= 0 THEN (2 * n + d) \div (2 * d)
              ELSE -((2 * (-n) + d) \div (2 * d))

-----------------------------------------------------------------------------
(* useCollisionBounds: the bounds object.                                  *)

minX == -980000
maxX == 980000
minZ == -380000
maxZ == 380000
minY == 50000
maxY == 380000
centerWallX == 0
doorwayMinZ == -120000
doorwayMaxZ == 120000

\* The literal 0.5 of clampPosition: half-width of the wall band and the x
\* the wall correction writes.
WallHalfWidth == 50000

\* Variant: a value outside the range goes to the range's lower end.
ClampAxis_ToMin(v, lo, hi) == IF v < lo \/ hi < v THEN lo ELSE v

\* Variant: the upper bound forgotten, Math.max(lo, v).
ClampAxis_NoMax(v, lo, hi) == IF v < lo THEN lo ELSE v

\* Math.max(lo, Math.min(hi, v))
ClampAxis(v, lo, hi) ==
    LET m == IF hi < v THEN hi ELSE v
    IN  IF lo > m THEN lo ELSE m

\* Variant: <= and >= for < and >, the doorway's ends taken for wall.
OutsideDoorway_Inclusive(cz) == cz <= doorwayMinZ \/ cz >= doorwayMaxZ

\* clamped.z < bounds.doorwayMinZ || clamped.z > bounds.doorwayMaxZ
OutsideDoorway(cz) == cz < doorwayMinZ \/ cz > doorwayMaxZ

\* Math.abs(clamped.x) < 0.5
InWallBand(cx) == Abs(cx) < WallHalfWidth

\* Variant: the camera bounces off the wall plane, clamped.x = -pos.x.
WallPush_Reflect(px) == -px

\* Variant: the push stops 0.1 short of the band's edge, at 0.4 and -0.4.
WallPush_Inside(px) ==
    IF px > 0 THEN WallHalfWidth - 10000 ELSE -(WallHalfWidth - 10000)

\* Variant: pos.x >= 0 for pos.x > 0, the wall plane counted to the right.
WallPush_TieRight(px) == IF px >= 0 THEN WallHalfWidth ELSE -WallHalfWidth

\* pos.x > 0 ? 0.5 : -0.5
WallPush(px) == IF px > 0 THEN WallHalfWidth ELSE -WallHalfWidth

\* Variant: the wall correction slides the point along the wall into the
\* doorway range instead of pushing it out of the band, z changed, x kept.
clampPosition_SlidesToDoorway(p) ==
    LET cx == ClampAxis(p.x, minX, maxX)
        cy == ClampAxis(p.y, minY, maxY)
        cz == ClampAxis(p.z, minZ, maxZ)
    IN  IF InWallBand(cx) /\ OutsideDoorway(cz)
        THEN Vec(cx, cy, ClampAxis(cz, doorwayMinZ, doorwayMaxZ))
        ELSE Vec(cx, cy, cz)

clampPosition(p) ==
    LET cx == ClampAxis(p.x, minX, maxX)
        cy == ClampAxis(p.y, minY, maxY)
        cz == ClampAxis(p.z, minZ, maxZ)
    IN  IF InWallBand(cx) /\ OutsideDoorway(cz)
        THEN Vec(WallPush(p.x), cy, cz)
        ELSE Vec(cx, cy, cz)

\* The box of the bounds object.
InBox(p) ==
    /\ minX <= p.x /\ p.x <= maxX
    /\ minY <= p.y /\ p.y <= maxY
    /\ minZ <= p.z /\ p.z <= maxZ

-----------------------------------------------------------------------------
(* ROOM_VIEWS: the preset table.                                           *)

Views == { "overview", "livingRoom", "bedroom", "topDown" }

ROOM_VIEWS ==
    [ overview   |-> [ position |-> Vec(0, 600000, 1400000),
                       lookAt   |-> Vec(0, 150000, 0) ],
      livingRoom |-> [ position |-> Vec(-500000, 300000, 800000),
                       lookAt   |-> Vec(-500000, 200000, 0) ],
      bedroom    |-> [ position |-> Vec(600000, 300000, 800000),
                       lookAt   |-> Vec(600000, 100000, 0) ],
      topDown    |-> [ position |-> Vec(0, 1200000, 10000),
                       lookAt   |-> Vec(0, 0, 0) ] ]

-----------------------------------------------------------------------------
(* The clampPosition study: clampPosition applied once and twice to every  *)
(* point of a grid that straddles every threshold of the function.         *)

Near(knots) == { k + d : k \in knots, d \in -Jitter .. Jitter }

XInputs == Near({ minX, maxX, -WallHalfWidth, WallHalfWidth, centerWallX,
                  -10000, 10000, -500000, 600000 })
YInputs == Near({ minY, maxY, 200000, 600000 })
ZInputs == Near({ minZ, maxZ, doorwayMinZ, doorwayMaxZ, 0, 200000, 800000 })

ClampInit ==
    /\ pos \in { Vec(a, b, c) : a \in XInputs, b \in YInputs, c \in ZInputs }
    /\ clamped = pos
    /\ reclamped = pos
    /\ applied = 0
    /\ lastSelected = "overview"
    /\ manual = "none"
    /\ livingRoomLight = TRUE
    /\ bedroomLight = TRUE
    /\ nToggles = [ livingRoom |-> 0, bedroom |-> 0 ]
    /\ presets = ROOM_VIEWS
    /\ eye = Vec(0, 0, 0)
    /\ lookAt = Vec(0, 0, 0)
    /\ currentView = "overview"
    /\ rendered = Vec(0, 0, 0)
    /\ frame = 0
    /\ nSelects = 0
    /\ nInputs = 0
    /\ clampAltered = FALSE

ClampOnce ==
    /\ applied = 0
    /\ clamped' = clampPosition(pos)
    /\ applied' = 1
    /\ UNCHANGED << pos, reclamped >>
    /\ UNCHANGED cameraVars
    /\ UNCHANGED lightVars

ClampTwice ==
    /\ applied = 1
    /\ reclamped' = clampPosition(clamped)
    /\ applied' = 2
    /\ UNCHANGED << pos, clamped >>
    /\ UNCHANGED cameraVars
    /\ UNCHANGED lightVars

ClampNext == ClampOnce \/ ClampTwice

SpecClamp == ClampInit /\ [][ClampNext]_vars

-----------------------------------------------------------------------------
(* Claims about clampPosition, checked under SpecClamp.                    *)

\* z after the box clamp, as the wall test reads it.
BoxZ(p) == ClampAxis(p.z, minZ, maxZ)

\* C1: clampPosition is idempotent: clamping the clamped point again gives
\* the same point on all three coordinates.
C1_Idempotent == applied = 2 => reclamped = clamped

C1_Witness ==
    /\ applied = 2
    /\ ~InBox(pos)
    /\ InWallBand(pos.x)
    /\ OutsideDoorway(BoxZ(pos))
    /\ clamped # pos

\* C2: Containment: the result of clampPosition lies in the box
\* [minX,maxX] x [minY,maxY] x [minZ,maxZ], also after the wall correction.
C2_Containment == applied >= 1 => InBox(clamped)

C2_Witness ==
    /\ applied >= 1
    /\ pos.x > maxX /\ pos.y > maxY /\ pos.z > maxZ
    /\ clamped = Vec(maxX, maxY, maxZ)

\* C3: Wall blocking on both sides: with z (after the box clamp) outside the
\* doorway range, 0 < x < 0.5 gives x = +0.5 and -0.5 < x < 0 gives x = -0.5.
C3_WallBlocking ==
    (applied >= 1 /\ OutsideDoorway(BoxZ(pos))) =>
        /\ (0 < pos.x /\ pos.x < WallHalfWidth) => clamped.x = WallHalfWidth
        /\ (-WallHalfWidth < pos.x /\ pos.x < 0) => clamped.x = -WallHalfWidth

C3_Witness ==
    /\ applied >= 1
    /\ pos = Vec(-10000, 200000, 200000)
    /\ clamped = Vec(-WallHalfWidth, 200000, 200000)

\* C4: Doorway passability: with |x| < 0.5 and z in [doorwayMinZ, doorwayMaxZ]
\* (bounds included) clampPosition leaves x unchanged.
C4_DoorwayPassable ==
    (applied >= 1 /\ InWallBand(pos.x)
        /\ doorwayMinZ <= pos.z /\ pos.z <= doorwayMaxZ) =>
            clamped.x = pos.x

C4_Witness ==
    /\ applied >= 1
    /\ pos = Vec(0, 200000, doorwayMaxZ)
    /\ clamped = pos

\* C5 as claimed: at x exactly 0 with z outside the doorway range the point
\* counts as being on the right side and x becomes +0.5.
C5_TieBreakRight ==
    (applied >= 1 /\ pos.x = centerWallX /\ OutsideDoorway(BoxZ(pos))) =>
        clamped.x = WallHalfWidth

\* C5 as amended: at x exactly 0 with z outside the doorway range the point
\* counts as being on the left side and x becomes -0.5.
C5_TieBreakLeft ==
    (applied >= 1 /\ pos.x = centerWallX /\ OutsideDoorway(BoxZ(pos))) =>
        clamped.x = -WallHalfWidth

C5_Witness ==
    /\ applied >= 1
    /\ pos.x = centerWallX
    /\ OutsideDoorway(BoxZ(pos))
    /\ clamped.x = -WallHalfWidth


-----------------------------------------------------------------------------
(* CameraController: Vector3.lerp with alpha 0.02 = LerpNum / LerpDen.     *)

LerpNum == 2
LerpDen == 100

\* Variant: alpha 0.01 for 0.02.
Lerp_Slow(a, t) == a + RoundDiv((t - a) * 1, LerpDen)

\* this.x += (v.x - this.x) * alpha
Lerp(a, t) == a + RoundDiv((t - a) * LerpNum, LerpDen)

Lerp3(p, t) == Vec(Lerp(p.x, t.x), Lerp(p.y, t.y), Lerp(p.z, t.z))

-----------------------------------------------------------------------------
(* Exact comparison of Euclidean lengths.  A square of a coordinate does   *)
(* not fit the checker's integers, so each coordinate is split at SplitAt  *)
(* and the sums of squares are compared digit by digit.                    *)

SplitAt == 2 ^ 11

Sub(p, q) == Vec(p.x - q.x, p.y - q.y, p.z - q.z)

Add(p, q) == Vec(p.x + q.x, p.y + q.y, p.z + q.z)

Hi(n) == Abs(n) \div SplitAt
Lo(n) == Abs(n) % SplitAt

SqHi(v)  == Hi(v.x) * Hi(v.x) + Hi(v.y) * Hi(v.y) + Hi(v.z) * Hi(v.z)
SqMid(v) == 2 * (Hi(v.x) * Lo(v.x) + Hi(v.y) * Lo(v.y) + Hi(v.z) * Lo(v.z))
SqLo(v)  == Lo(v.x) * Lo(v.x) + Lo(v.y) * Lo(v.y) + Lo(v.z) * Lo(v.z)

\* The sign digit of |a|^2 - |b|^2 and its remainder: the difference is
\* SqTop * SplitAt^2 + SqRest with 0 <= SqRest < SplitAt^2.
SqCarry(a, b) ==
    LET m == SqMid(a) - SqMid(b)
        l == SqLo(a) - SqLo(b)
        mq == m \div SplitAt
        mr == m % SplitAt
        r == mr * SplitAt + l
    IN  << SqHi(a) - SqHi(b) + mq + (r \div (SplitAt * SplitAt)),
           r % (SplitAt * SplitAt) >>

\* |a| < |b|
Shorter(a, b) == SqCarry(a, b)[1] < 0

\* distance from p to t is below r model units
Within(p, t, r) == Shorter(Sub(p, t), Vec(r, 0, 0))

\* p is strictly closer to t than q is
Closer(p, q, t) == Shorter(Sub(p, t), Sub(q, t))

-----------------------------------------------------------------------------
(* The camera state machine: Scene3D, CameraController and Scene.          *)
(*                                                                         *)
(* Frame callbacks.  react-three-fiber runs the useFrame callbacks of one  *)
(* frame in the order of their subscription, children before parents, and *)
(* then renders: CameraController's callback (lerp of camera.position and  *)
(* of the controls' target) runs before Scene's (clampPosition).           *)
(* OrbitControls applies a pending manual input to camera.position when    *)
(* the input event arrives, before the frame's callbacks.  With no pending *)
(* input and the camera within its distance and polar limits,              *)
(* controls.update() leaves camera.position as it is; the model takes      *)
(* manual inputs from those the limits leave alone.                        *)

\* OrbitControls props minDistance, maxDistance.
minDistance == 300000
maxDistance == 2500000

\* One wheel notch scales the distance to the target by 0.95 (zoom in) or
\* 1 / 0.95 (zoom out): OrbitControls' zoomSpeed 1.
DollyIn(v)  == Vec(RoundDiv(v.x * 95, 100), RoundDiv(v.y * 95, 100),
                   RoundDiv(v.z * 95, 100))
DollyOut(v) == Vec(RoundDiv(v.x * 100, 95), RoundDiv(v.y * 100, 95),
                   RoundDiv(v.z * 100, 95))

RECURSIVE Dolly(_, _)
Dolly(v, k) ==
    IF k = 0 THEN v
    ELSE IF k > 0 THEN Dolly(DollyIn(v), k - 1)
    ELSE Dolly(DollyOut(v), k + 1)

\* The offset eye - target is within OrbitControls' limits: its length in
\* [minDistance, maxDistance] and its polar angle below maxPolarAngle
\* (pi / 2.1, whose cosine is above 1/13: length <= 13 * height suffices).
WithinOrbitLimits(off) ==
    /\ ~Shorter(off, Vec(minDistance, 0, 0))
    /\ ~Shorter(Vec(maxDistance, 0, 0), off)
    /\ off.y > 0
    /\ ~Shorter(Vec(13 * off.y, 0, 0), off)

\* Variant: the frame callback keeps the preset it was first given (a stale
\* closure over the initial props) whatever the view selected since.
FrameTarget_Stale(view) == ROOM_VIEWS["overview"]

\* The targets CameraController's frame callback reads: Scene3D hands
\* ROOM_VIEWS[currentView].position and .lookAt down as props on each
\* render, and the callback of the latest render is the one that runs.
\* The props are the table's own Vector3 objects, not copies.
FrameTarget(view) == presets[view]

\* Variant: the controls' target goes through clampPosition like the eye.
FrameLookAt_Clamped(l, t) == clampPosition(Lerp3(l, t))

\* One frame's effect on the controls' target: CameraController's lerp;
\* Scene's callback reads and writes camera.position only.
FrameLookAt(l, t) == Lerp3(l, t)

\* Variant: the two callbacks in the other order, the clamp before the lerp.
FrameEye_ClampFirst(e, t) == Lerp3(clampPosition(e), t)

\* One frame's effect on camera.position: CameraController's lerp, then
\* Scene's clampPosition and copy.
FrameEye(e, t) == clampPosition(Lerp3(e, t))

\* <Canvas camera={{ position: [0, 6, 14] }}>; OrbitControls is given no
\* target and starts at its default, the origin; useState("overview").
Init ==
    /\ eye = Vec(0, 600000, 1400000)
    /\ lookAt = Vec(0, 0, 0)
    /\ currentView = "overview"
    /\ rendered = Vec(0, 600000, 1400000)
    /\ frame = 0
    /\ nSelects = 0
    /\ nInputs = 0
    /\ clampAltered = FALSE
    /\ pos = Vec(0, 0, 0)
    /\ clamped = Vec(0, 0, 0)
    /\ reclamped = Vec(0, 0, 0)
    /\ applied = 0
    /\ lastSelected = "overview"
    /\ manual = "none"
    /\ livingRoomLight = TRUE
    /\ bedroomLight = TRUE
    /\ nToggles = [ livingRoom |-> 0, bedroom |-> 0 ]
    /\ presets = ROOM_VIEWS

\* Variant: pressing a navigation button puts the camera on the preset at
\* once.
SetCurrentView_Teleport(view) ==
    /\ view # currentView
    /\ currentView' = view
    /\ lastSelected' = view
    /\ nSelects' = nSelects + 1
    /\ clampAltered' = FALSE
    /\ eye' = clampPosition(ROOM_VIEWS[view].position)
    /\ lookAt' = ROOM_VIEWS[view].lookAt
    /\ UNCHANGED << rendered, frame, nInputs, manual >>
    /\ UNCHANGED clampVars
    /\ UNCHANGED lightVars
    /\ UNCHANGED presets

\* onClick={() => setCurrentView(view)}; React keeps the state when the
\* view is the current one.
SetCurrentView(view) ==
    /\ view # currentView
    /\ currentView' = view
    /\ lastSelected' = view
    /\ nSelects' = nSelects + 1
    /\ clampAltered' = FALSE
    /\ UNCHANGED << eye, lookAt, rendered, frame, nInputs, manual >>
    /\ UNCHANGED clampVars
    /\ UNCHANGED lightVars
    /\ UNCHANGED presets

\* Variant: a frame that finds a manual input leaves the transition alone,
\* no lerp of the eye or of the target, and only clamps.
FrameBody_Suspended ==
    LET target == FrameTarget(currentView)
        idle == manual # "none"
        lerped == IF idle THEN eye ELSE Lerp3(eye, target.position)
        clampedPos == clampPosition(lerped)
    IN  /\ eye' = clampedPos
        /\ lookAt' = IF idle THEN lookAt
                      ELSE FrameLookAt(lookAt, target.lookAt)
        /\ clampAltered' = (clampAltered \/ lerped # clampedPos)
        /\ rendered' = clampedPos
        /\ frame' = frame + 1
        /\ manual' = "none"
        /\ UNCHANGED << currentView, nSelects, nInputs, lastSelected >>
        /\ UNCHANGED clampVars
        /\ UNCHANGED lightVars
        /\ UNCHANGED presets

\* A frame body whose lerp runs the wrong way round,
\* targetPosition.lerp(camera.position, 0.02): the Vector3 written is the
\* selected preset's own eye, and the camera stays where it is.
FrameBody_LerpsPreset ==
    LET target == FrameTarget(currentView)
        clampedPos == clampPosition(eye)
    IN  /\ presets' = [ presets EXCEPT
                          ![currentView].position = Lerp3(@, eye) ]
        /\ eye' = clampedPos
        /\ lookAt' = FrameLookAt(lookAt, target.lookAt)
        /\ clampAltered' = (clampAltered \/ eye # clampedPos)
        /\ rendered' = clampedPos
        /\ frame' = frame + 1
        /\ manual' = "none"
        /\ UNCHANGED << currentView, nSelects, nInputs, lastSelected >>
        /\ UNCHANGED clampVars
        /\ UNCHANGED lightVars

\* The body of one frame: CameraController's useFrame, Scene's useFrame,
\* the render.
FrameBody ==
    LET target == FrameTarget(currentView)
        lerped == Lerp3(eye, target.position)
        clampedPos == FrameEye(eye, target.position)
    IN  /\ eye' = clampedPos
        /\ lookAt' = FrameLookAt(lookAt, target.lookAt)
        /\ clampAltered' = (clampAltered \/ lerped # clampedPos)
        /\ rendered' = clampedPos
        /\ frame' = frame + 1
        /\ manual' = "none"
        /\ UNCHANGED << currentView, nSelects, nInputs, lastSelected >>
        /\ UNCHANGED clampVars
        /\ UNCHANGED lightVars
        /\ UNCHANGED presets

Frame == frame < MaxFrames /\ FrameBody

SelectView ==
    /\ nSelects < MaxSelects
    /\ frame % EventEvery = 0
    /\ \E view \in Views : SetCurrentView(view)

\* The wheel turned by k notches between two frames: OrbitControls moves
\* camera.position along the line through the target.
OrbitInput ==
    /\ nInputs < MaxInputs
    /\ frame % EventEvery = 0
    /\ \E k \in (-MaxNotches .. MaxNotches) \ {0} :
          LET off == Dolly(Sub(eye, lookAt), k)
          IN  /\ WithinOrbitLimits(Sub(eye, lookAt))
              /\ WithinOrbitLimits(off)
              /\ eye' = Add(lookAt, off)
    /\ nInputs' = nInputs + 1
    /\ manual' = "wheel"
    /\ UNCHANGED << lookAt, currentView, rendered, frame, nSelects,
                    clampAltered, lastSelected >>
    /\ UNCHANGED clampVars
    /\ UNCHANGED lightVars
    /\ UNCHANGED presets

Next == Frame \/ SelectView \/ OrbitInput

Spec == Init /\ [][Next]_vars

-----------------------------------------------------------------------------
(* OrbitControls' limits.  The component is given minDistance 3,           *)
(* maxDistance 25 and maxPolarAngle pi / 2.1; what it does with them is    *)
(* the library's, described by the specification's OrbitInputAdapter: the  *)
(* offset eye - target is held in spherical coordinates, the radius is     *)
(* clamped to [minDistance, maxDistance], the polar angle to               *)
(* [0, maxPolarAngle], and the eye is written back as target + offset.     *)
(* The model keeps the offset Cartesian: the radius is clamped by scaling  *)
(* the offset, the polar angle by turning it in its vertical plane.        *)

\* The largest n in lo .. hi - 1 with n <= |v|, given lo <= |v| < hi.
RECURSIVE NormIn(_, _, _)
NormIn(v, lo, hi) ==
    IF hi - lo <= 1 THEN lo
    ELSE LET mid == (lo + hi) \div 2
         IN  IF Shorter(v, Vec(mid, 0, 0)) THEN NormIn(v, lo, mid)
             ELSE NormIn(v, mid, hi)

\* |v| rounded down to a model unit.
Norm(v) == NormIn(v, 0, 2 ^ 23)

\* n * num / den for 0 <= n <= den + 1, with the ratio num / den taken to
\* 18 binary places so that no product leaves the checker's integers.
ScaleBy(n, num, den) ==
    LET q1 == (num * 512) \div den
        q2 == ((num * 512 - q1 * den) * 512) \div den
        a == Abs(n)
        m == (a * q1) \div 512 + (a * q2) \div (512 * 512)
    IN  IF n < 0 THEN -m ELSE m

\* v scaled to the length len.
ScaleTo(v, len) ==
    LET n == Norm(v)
    IN  Vec(ScaleBy(v.x, len, n), ScaleBy(v.y, len, n), ScaleBy(v.z, len, n))

\* ScaleTo is exact to within RadiusSlack model units; the radius is
\* clamped that much inside the limits so that a clamped offset is within
\* them.
RadiusSlack == 16

\* spherical.radius = clamp(radius, minDistance, maxDistance)
PinRadius(off) ==
    IF Shorter(off, Vec(minDistance, 0, 0))
    THEN ScaleTo(off, minDistance + RadiusSlack)
    ELSE IF Shorter(Vec(maxDistance, 0, 0), off)
    THEN ScaleTo(off, maxDistance - RadiusSlack)
    ELSE off

\* The cosine of maxPolarAngle = pi / 2.1 is 0.0747301; the model takes
\* CeilingNum / CeilingDen = 0.0747331.
CeilingNum == 21
CeilingDen == 281

\* The polar angle of off, measured from the y axis, is above the ceiling:
\* off.y < |off| * cos(maxPolarAngle).  For offsets no longer than
\* maxDistance.
AboveCeiling(off) ==
    \/ off.y <= 0
    \/ /\ off.y < 200000
       /\ Shorter(Vec(off.y * CeilingDen, 0, 0),
                  Vec(off.x * CeilingNum, off.y * CeilingNum,
                      off.z * CeilingNum))

\* The largest m in lo .. hi - 1 with m * m + up * up <= r * r, given that
\* lo is one such and hi is not.
RECURSIVE LegIn(_, _, _, _)
LegIn(r, up, lo, hi) ==
    IF hi - lo <= 1 THEN lo
    ELSE LET mid == (lo + hi) \div 2
         IN  IF Shorter(Vec(r, 0, 0), Vec(mid, up, 0))
             THEN LegIn(r, up, lo, mid)
             ELSE LegIn(r, up, mid, hi)

\* The offset of the length and azimuth of off whose polar angle is the
\* ceiling (rounded toward the y axis): spherical.phi = maxPolarAngle.
AtCeiling(off) ==
    LET r == Norm(off)
        up == (r * CeilingNum) \div CeilingDen + 1
        leg == LegIn(r, up, 0, r + 1)
        h == Norm(Vec(off.x, 0, off.z))
    IN  IF h = 0 THEN Vec(0, up, leg)
        ELSE Vec(ScaleBy(off.x, leg, h), up, ScaleBy(off.z, leg, h))

\* spherical.phi = clamp(phi, 0, maxPolarAngle)
PinPolar(off) == IF AboveCeiling(off) THEN AtCeiling(off) ELSE off

\* controls.update() with no pending input: the eye is put back within the
\* limits around the target l.
ControlsUpdate(e, l) == Add(l, PinPolar(PinRadius(Sub(e, l))))

-----------------------------------------------------------------------------
(* The orbit study: the user drives the wheel and the polar angle to the   *)
(* limits while presets are selected and frames run.  A frame here is the  *)
(* whole of it: OrbitControls' own frame callback (update), then           *)
(* CameraController's (lerp, lerp, update), then Scene's (clampPosition).  *)

OrbitFrame ==
    LET target == FrameTarget(currentView)
        updated == ControlsUpdate(eye, lookAt)
        newLookAt == FrameLookAt(lookAt, target.lookAt)
        lerped == ControlsUpdate(Lerp3(updated, target.position), newLookAt)
        clampedPos == clampPosition(lerped)
    IN  /\ frame < MaxOrbitFrames
        /\ eye' = clampedPos
        /\ lookAt' = newLookAt
        /\ clampAltered' = (clampAltered \/ lerped # clampedPos)
        /\ rendered' = clampedPos
        /\ frame' = frame + 1
        /\ manual' = "none"
        /\ UNCHANGED << currentView, nSelects, nInputs, lastSelected >>
        /\ UNCHANGED clampVars
        /\ UNCHANGED lightVars
        /\ UNCHANGED presets

\* A manual input of the given kind that leaves the offset off; several
\* inputs can arrive between the same two frames.
OrbitTo(kind, off) ==
    /\ nInputs < MaxOrbitInputs
    /\ frame % OrbitEvery = 0
    /\ eye' = Add(lookAt, off)
    /\ eye' # eye
    /\ manual' = kind
    /\ nInputs' = nInputs + 1
    /\ UNCHANGED << lookAt, currentView, rendered, frame, nSelects,
                    clampAltered, lastSelected >>
    /\ UNCHANGED clampVars
    /\ UNCHANGED lightVars
    /\ UNCHANGED presets

\* The wheel turned until the radius stops at minDistance.
ZoomInFully ==
    OrbitTo("zoomIn", PinPolar(ScaleTo(Sub(eye, lookAt),
                                       minDistance + RadiusSlack)))

\* The wheel turned until the radius stops at maxDistance.
ZoomOutFully ==
    OrbitTo("zoomOut", PinPolar(ScaleTo(Sub(eye, lookAt),
                                        maxDistance - RadiusSlack)))

\* The camera dragged down until the polar angle stops at maxPolarAngle.
PushPolar ==
    OrbitTo("polar", AtCeiling(PinRadius(Sub(eye, lookAt))))

\* The wheel turned by k notches.
OrbitWheel ==
    \E k \in (-MaxNotches .. MaxNotches) \ {0} :
        OrbitTo("wheel", PinPolar(PinRadius(Dolly(Sub(eye, lookAt), k))))

OrbitSelect ==
    /\ nSelects < MaxSelects
    /\ frame % OrbitEvery = 0
    /\ \E view \in Views : SetCurrentView(view)

OrbitNext ==
    \/ OrbitFrame
    \/ OrbitSelect
    \/ ZoomInFully
    \/ ZoomOutFully
    \/ PushPolar
    \/ OrbitWheel

SpecOrbit == Init /\ [][OrbitNext]_vars

-----------------------------------------------------------------------------
(* The navigation buttons, one per key of ROOM_VIEWS.                      *)

\* Variant: a button is highlighted while the camera is nearer than four
\* units to its preset's eye.
Highlighted_Arrived(view) ==
    Within(rendered, ROOM_VIEWS[view].position, 400000)

\* className: currentView === view ? "bg-white text-black" : ...
Highlighted(view) == currentView = view

-----------------------------------------------------------------------------
(* The tour: preset selections only, no manual input, and frames until     *)
(* every transition has stopped.                                           *)

TourFrame == frame < MaxTourFrames /\ FrameBody

\* The Living Room button, pressed once, at the start or between two later
\* frames.
SelectLivingRoom ==
    /\ nSelects = 0
    /\ frame % EventEvery = 0
    /\ SetCurrentView("livingRoom")

TourNext == TourFrame \/ SelectLivingRoom

SpecTour == Init /\ [][TourNext]_vars

-----------------------------------------------------------------------------
(* Transitions between presets: any preset button, pressed at the start or *)
(* after the previous transition has had SettleFrames frames to stop, no   *)
(* manual input.                                                           *)

TransitFrame == frame < MaxTransitFrames /\ FrameBody

TransitSelect ==
    /\ nSelects < MaxSelects
    /\ frame % SettleFrames = 0
    /\ \E view \in Views : SetCurrentView(view)

TransitNext == TransitFrame \/ TransitSelect

SpecTransit == Init /\ [][TransitNext]_vars

-----------------------------------------------------------------------------
(* The lerp alone: camera.position.lerp(targetPosition, 0.02) applied      *)
(* frame after frame from points 15 units (one of them 15.14) away from    *)
(* the preset's position, with no clamp in between.                        *)

LerpOffsets == { Vec(1500000, 0, 0), Vec(0, -1500000, 0),
                 Vec(900000, -1200000, 0), Vec(-1000000, 500000, 1000000),
                 Vec(0, -600000, 1390000) }

LerpInit ==
    /\ currentView \in Views
    /\ eye \in { Add(ROOM_VIEWS[currentView].position, o) : o \in LerpOffsets }
    /\ lookAt = Vec(0, 0, 0)
    /\ rendered = eye
    /\ frame = 0
    /\ nSelects = 0
    /\ nInputs = 0
    /\ clampAltered = FALSE
    /\ pos = Vec(0, 0, 0)
    /\ clamped = Vec(0, 0, 0)
    /\ reclamped = Vec(0, 0, 0)
    /\ applied = 0
    /\ lastSelected = "overview"
    /\ manual = "none"
    /\ livingRoomLight = TRUE
    /\ bedroomLight = TRUE
    /\ nToggles = [ livingRoom |-> 0, bedroom |-> 0 ]
    /\ presets = ROOM_VIEWS

LerpStep ==
    /\ frame < MaxLerpFrames
    /\ eye' = Lerp3(eye, ROOM_VIEWS[currentView].position)
    /\ rendered' = eye'
    /\ frame' = frame + 1
    /\ UNCHANGED << lookAt, currentView, nSelects, nInputs, clampAltered,
                    lastSelected, manual >>
    /\ UNCHANGED clampVars
    /\ UNCHANGED lightVars
    /\ UNCHANGED presets

SpecLerp == LerpInit /\ [][LerpStep]_vars

-----------------------------------------------------------------------------
(* The light panel: the two light buttons of Scene3D, next to the          *)
(* navigation buttons and the frames.  React re-renders after each click,  *)
(* so the value a button's handler negates is the current state.           *)

\* Variant: the Living Room button switches both lights.
ToggleLivingRoomLight_Both ==
    /\ nToggles.livingRoom + nToggles.bedroom < MaxToggles
    /\ livingRoomLight' = ~livingRoomLight
    /\ bedroomLight' = ~bedroomLight
    /\ nToggles' = [ nToggles EXCEPT !.livingRoom = @ + 1 ]
    /\ UNCHANGED cameraVars
    /\ UNCHANGED clampVars

\* onClick={() => setLivingRoomLight(!livingRoomLight)}
ToggleLivingRoomLight ==
    /\ nToggles.livingRoom + nToggles.bedroom < MaxToggles
    /\ livingRoomLight' = ~livingRoomLight
    /\ nToggles' = [ nToggles EXCEPT !.livingRoom = @ + 1 ]
    /\ UNCHANGED bedroomLight
    /\ UNCHANGED cameraVars
    /\ UNCHANGED clampVars

\* onClick={() => setBedroomLight(!bedroomLight)}
ToggleBedroomLight ==
    /\ nToggles.livingRoom + nToggles.bedroom < MaxToggles
    /\ bedroomLight' = ~bedroomLight
    /\ nToggles' = [ nToggles EXCEPT !.bedroom = @ + 1 ]
    /\ UNCHANGED livingRoomLight
    /\ UNCHANGED cameraVars
    /\ UNCHANGED clampVars

LightsFrame == frame < MaxLightFrames /\ FrameBody

LightsNext ==
    LightsFrame \/ SelectView \/ ToggleLivingRoomLight \/ ToggleBedroomLight

SpecLights == Init /\ [][LightsNext]_vars

\* Everything a visitor and the frame loop can do, together: frames, preset
\* buttons, the wheel and the two light buttons.
TableNext ==
    \/ LightsFrame
    \/ SelectView
    \/ OrbitInput
    \/ ToggleLivingRoomLight
    \/ ToggleBedroomLight

SpecTable == Init /\ [][TableNext]_vars

-----------------------------------------------------------------------------
(* Claims about the frames.                                                *)

\* The selected preset.
Target == ROOM_VIEWS[currentView]

\* A further frame changes neither camera.position nor the controls' target.
AtRest ==
    /\ FrameEye(eye, Target.position) = eye
    /\ Lerp3(lookAt, Target.lookAt) = lookAt

\* The doorway gap: inside the wall band with z in the doorway range.
InGap(p) == InWallBand(p.x) /\ ~OutsideDoorway(p.z)

\* The playable volume: the box without the wall band outside the doorway.
Playable(p) == InBox(p) /\ ~(InWallBand(p.x) /\ OutsideDoorway(p.z))

\* C6 as claimed (SpecTour): from the initial Overview state with the Living
\* Room preset selected, once the camera has come to rest the committed eye
\* is within 0.01 of the preset's eye (-5, 3, 8) and the clamp has not
\* altered the eye since the selection.
C6_EndToEnd ==
    (currentView = "livingRoom" /\ AtRest) =>
        /\ Within(rendered, ROOM_VIEWS.livingRoom.position, 1000)
        /\ ~clampAltered

C8_OnlyThroughDoorway ==
    [][(frame' = frame + 1
          /\ \/ rendered.x < centerWallX /\ rendered'.x > centerWallX
             \/ rendered.x > centerWallX /\ rendered'.x < centerWallX)
        => (InGap(rendered) \/ InGap(rendered'))]_vars

\* C9 as claimed (SpecTour, no manual input): on every frame the committed
\* eye is strictly closer to the selected preset's eye than on the previous
\* frame unless it was there already, and likewise lookAt.
C9_MonotoneConvergence ==
    [][frame' = frame + 1 =>
          /\ rendered # Target.position =>
                Closer(rendered', rendered, Target.position)
          /\ lookAt # Target.lookAt =>
                Closer(lookAt', lookAt, Target.lookAt)]_vars

-----------------------------------------------------------------------------
(* Claims about selections and frames.                                     *)

\* C11 (Spec): last write wins.  Every frame lerps the eye and lookAt toward
\* the preset of the button pressed last, whatever was selected before it
\* and however far the earlier transition had got; nothing is queued.
C11_LastWriteWins ==
    [][frame' = frame + 1 =>
          /\ lookAt' = Lerp3(lookAt, ROOM_VIEWS[lastSelected].lookAt)
          /\ rendered' =
                clampPosition(Lerp3(eye, ROOM_VIEWS[lastSelected].position))]_vars

\* Living Room then Bedroom, the second pressed long before the first
\* transition was over: lookAt.x went negative and is positive again.
C11_Witness ==
    /\ nSelects = 2
    /\ lastSelected = "bedroom"
    /\ frame % EventEvery # 0
    /\ lookAt.x > 0
    /\ lookAt.y > 0
    /\ ~Within(lookAt, ROOM_VIEWS.bedroom.lookAt, 400000)

\* v lies between a and b, the ends included.
Between(v, a, b) == (a <= v /\ v <= b) \/ (b <= v /\ v <= a)

Between3(p, a, b) ==
    /\ Between(p.x, a.x, b.x)
    /\ Between(p.y, a.y, b.y)
    /\ Between(p.z, a.z, b.z)

\* C12 as claimed (SpecTour, no manual input): on every frame each
\* coordinate of the committed eye lies between its value on the previous
\* frame and the selected preset's value, and likewise each coordinate of
\* lookAt: the camera moves neither past the target nor away from it.
C12_NoOvershoot ==
    [][frame' = frame + 1 =>
          /\ Between3(rendered', rendered, Target.position)
          /\ Between3(lookAt', lookAt, Target.lookAt)]_vars

\* The step from a to a2 covers 0.02 of the way from a to t, to the nearest
\* model unit.
RateOK(a, a2, t) == Abs(100 * (a2 - a) - 2 * (t - a)) <= 50

\* C13 (Spec): pressing a navigation button changes the selected view and
\* nothing of the camera: the eye, lookAt and the committed eye are what
\* they were.  The frames that follow move lookAt, and every coordinate of
\* the eye that the clamp has not set to one of its own values, by 0.02 of
\* what remains to the preset.
C13_NoTeleport ==
    /\ [][currentView' # currentView =>
            (eye' = eye /\ lookAt' = lookAt /\ rendered' = rendered
                /\ frame' = frame)]_vars
    /\ [][frame' = frame + 1 =>
            /\ RateOK(lookAt.x, lookAt'.x, Target.lookAt.x)
            /\ RateOK(lookAt.y, lookAt'.y, Target.lookAt.y)
            /\ RateOK(lookAt.z, lookAt'.z, Target.lookAt.z)
            /\ Abs(rendered'.x) \notin { WallHalfWidth, maxX } =>
                    RateOK(eye.x, rendered'.x, Target.position.x)
            /\ (minY < rendered'.y /\ rendered'.y < maxY) =>
                    RateOK(eye.y, rendered'.y, Target.position.y)
            /\ (minZ < rendered'.z /\ rendered'.z < maxZ) =>
                    RateOK(eye.z, rendered'.z, Target.position.z)]_vars

\* Bedroom pressed after eight frames of Overview: the eye is still where
\* those frames left it, more than seven units from the Bedroom preset's eye.
C13_Witness ==
    /\ frame = EventEvery
    /\ nSelects = 1
    /\ nInputs = 0
    /\ currentView = "bedroom"
    /\ eye = Vec(-WallHalfWidth, maxY, maxZ)
    /\ rendered = eye
    /\ ~Within(eye, ROOM_VIEWS.bedroom.position, 700000)

-----------------------------------------------------------------------------
(* clampPosition and the nearest playable point (SpecClamp).               *)

\* The value of lo .. hi nearest to v.
NearestIn(v, lo, hi) ==
    CHOOSE w \in { v, lo, hi } :
        /\ lo <= w /\ w <= hi
        /\ \A u \in { v, lo, hi } :
                (lo <= u /\ u <= hi) => Abs(w - v) <= Abs(u - v)

\* The point of the box nearest to p.
BoxClamp(p) ==
    Vec(NearestIn(p.x, minX, maxX), NearestIn(p.y, minY, maxY),
        NearestIn(p.z, minZ, maxZ))

\* The points of the playable volume that can be nearest to p among those
\* with the box-clamped y and z of p: the box-clamped point and the points
\* of the two faces of the wall.
FaceCandidates(p) ==
    LET c == BoxClamp(p)
    IN  { c, Vec(WallHalfWidth, c.y, c.z), Vec(-WallHalfWidth, c.y, c.z) }

\* Those, and the points of the two edges of the doorway range: one of
\* these is a point of the playable volume nearest to p.
NearestCandidates(p) ==
    LET c == BoxClamp(p)
    IN  FaceCandidates(p)
            \cup { Vec(c.x, c.y, doorwayMinZ), Vec(c.x, c.y, doorwayMaxZ) }

\* C16 as claimed (SpecClamp): for every p outside the playable volume no
\* point of the playable volume is closer to p than clampPosition(p).
C16_NearestPoint ==
    (applied >= 1 /\ ~Playable(pos)) =>
        /\ Playable(clamped)
        /\ \A q \in NearestCandidates(pos) :
                Playable(q) => ~Closer(q, clamped, pos)

\* C16 as amended (SpecClamp): for every p outside the playable volume
\* clampPosition(p) is a point of the playable volume, and no point of the
\* playable volume with the same y and z is closer to p; the wall is always
\* left along x, also where the doorway range is the nearer way out.
C16_NearestAlongX ==
    (applied >= 1 /\ ~Playable(pos)) =>
        /\ Playable(clamped)
        /\ clamped.y = BoxClamp(pos).y
        /\ clamped.z = BoxClamp(pos).z
        /\ \A q \in FaceCandidates(pos) :
                Playable(q) => ~Closer(q, clamped, pos)

\* A point of the wall band one model unit outside the doorway range: it
\* is moved 0.4 to the wall's face, the doorway being 0.00001 away.
C16_Witness ==
    /\ applied >= 1
    /\ pos = Vec(10000, 200000, doorwayMaxZ + 1)
    /\ clamped = Vec(WallHalfWidth, 200000, doorwayMaxZ + 1)
    /\ Playable(Vec(10000, 200000, doorwayMaxZ))

-----------------------------------------------------------------------------
(* Claims about the light panel (SpecLights).                              *)

\* C17 (SpecLights): both lights are on at the start; a press of a light's
\* button flips that light and leaves the other light, the selected view and
\* the camera as they were, so each light is on exactly when its button has
\* been pressed an even number of times; selecting a view and running a
\* frame leave both lights as they were.
C17_LightToggles ==
    /\ [](livingRoomLight = (nToggles.livingRoom % 2 = 0))
    /\ [](bedroomLight = (nToggles.bedroom % 2 = 0))
    /\ [][livingRoomLight' # livingRoomLight =>
            (bedroomLight' = bedroomLight /\ currentView' = currentView
                /\ eye' = eye /\ lookAt' = lookAt)]_vars
    /\ [][bedroomLight' # bedroomLight =>
            (livingRoomLight' = livingRoomLight /\ currentView' = currentView
                /\ eye' = eye /\ lookAt' = lookAt)]_vars
    /\ [][(currentView' # currentView \/ frame' # frame) =>
            (livingRoomLight' = livingRoomLight
                /\ bedroomLight' = bedroomLight)]_vars

\* The Living Room light switched off and on again, the Bedroom light
\* switched off, with the Bedroom view selected.
C17_Witness ==
    /\ nToggles = [ livingRoom |-> 2, bedroom |-> 1 ]
    /\ livingRoomLight
    /\ ~bedroomLight
    /\ currentView = "bedroom"
    /\ frame >= 1

-----------------------------------------------------------------------------
(* Claims about lookAt, manual input and the navigation buttons (Spec).    *)

\* C18 (Spec): lookAt is never clamped.  Every frame's lookAt is the lerp
\* of the previous lookAt toward the selected preset's lookAt and nothing
\* else, whether or not the clamp altered the eye on that frame and also
\* where the result lies outside the box the eye is kept in.
C18_LookAtNotClamped ==
    [][frame' = frame + 1 =>
          /\ lookAt'.x = Lerp(lookAt.x, Target.lookAt.x)
          /\ lookAt'.y = Lerp(lookAt.y, Target.lookAt.y)
          /\ lookAt'.z = Lerp(lookAt.z, Target.lookAt.z)]_vars

\* A frame on which the clamp altered the eye has just run, and lookAt,
\* on its way to a preset's lookAt, is below the floor of the box.
C18_Witness ==
    /\ frame >= 1
    /\ clampAltered
    /\ nSelects >= 1
    /\ lookAt # Vec(0, 0, 0)
    /\ lookAt # Target.lookAt
    /\ ~InBox(lookAt)
    /\ clampPosition(lookAt) # lookAt

\* C19 (Spec): manual input never suspends the transition.  A preset is
\* selected at all times; a manual input changes neither the selected view
\* nor lookAt; and the frame that follows a manual input lerps the eye the
\* input left, and lookAt, toward the selected preset like any other frame.
C19_NeverSuspended ==
    /\ [](currentView \in Views)
    /\ [][nInputs' = nInputs + 1 =>
            (manual' = "wheel" /\ currentView' = currentView /\ lookAt' = lookAt
                /\ frame' = frame /\ rendered' = rendered)]_vars
    /\ [][(frame' = frame + 1 /\ manual = "wheel") =>
            /\ rendered' = clampPosition(Lerp3(eye, Target.position))
            /\ lookAt' = Lerp3(lookAt, Target.lookAt)
            /\ manual' = "none"]_vars

\* The wheel turned after eight frames toward the Living Room preset, and
\* the frame after it: the eye has not stayed where the wheel put it.
C19_Witness ==
    /\ nInputs = 1
    /\ nSelects = 1
    /\ currentView = "livingRoom"
    /\ frame = EventEvery + 1
    /\ manual = "none"
    /\ rendered = eye
    /\ eye.x < -WallHalfWidth
    /\ eye # Target.position

\* C20 (Spec): exactly one of the four navigation buttons is highlighted,
\* the one pressed last (Overview before any press); a frame or a manual
\* input, wherever it takes the eye, leaves the highlight where it is.
C20_HighlightFollowsSelection ==
    /\ [](\A view \in Views : Highlighted(view) <=> view = lastSelected)
    /\ [](Cardinality({ view \in Views : Highlighted(view) }) = 1)
    /\ [](nSelects = 0 => Highlighted("overview"))
    /\ [][(frame' # frame \/ nInputs' # nInputs) =>
            \A view \in Views :
                Highlighted(view)' <=> Highlighted(view)]_vars

\* Bedroom was pressed, then Living Room eight frames later; the eye is
\* still on the bedroom's side of the wall, nearer to the Bedroom preset's
\* eye than to the Living Room preset's, and Living Room is highlighted.
C20_Witness ==
    /\ nSelects = 2
    /\ lastSelected = "livingRoom"
    /\ Highlighted("livingRoom")
    /\ ~Highlighted("bedroom")
    /\ frame % EventEvery # 0
    /\ rendered.x >= WallHalfWidth
    /\ Closer(rendered, ROOM_VIEWS.livingRoom.position,
              ROOM_VIEWS.bedroom.position)

-----------------------------------------------------------------------------
(* Claims about OrbitControls' limits (SpecOrbit).                         *)

\* The offset of the committed eye from lookAt.
Offset == Sub(rendered, lookAt)

\* Spec, SpecTour and SpecLights: on every frame controls.update() finds
\* the eye within OrbitControls' limits, before the lerp and after it, and
\* leaves it alone; FrameBody therefore has no step for it.
UpdateIdle ==
    [][frame' = frame + 1 =>
          /\ ControlsUpdate(eye, lookAt) = eye
          /\ ControlsUpdate(Lerp3(eye, Target.position),
                            Lerp3(lookAt, Target.lookAt))
                = Lerp3(eye, Target.position)]_vars

\* C14 as claimed (SpecOrbit): whatever the user does, the polar angle of
\* the committed eye around lookAt stays within [0, pi / 2.1], the ceiling
\* OrbitControls is given.  (The claim's second half, that a push beyond
\* the ceiling leaves the angle at the ceiling, is not part of the
\* formula.)
C14_PolarClamp ==
    frame >= 1 => ~AboveCeiling(Offset)

\* C15 as claimed (SpecOrbit): on every frame the distance from the
\* committed eye to lookAt is within [3, 25]; the frame after the wheel was
\* turned in as far as it goes commits a distance of 3, the frame after it
\* was turned out as far as it goes a distance of 25, each to within
\* PinSlack.
C15_RadiusClamp ==
    [][frame' = frame + 1 =>
          /\ ~Shorter(Offset', Vec(minDistance - RadiusSlack, 0, 0))
          /\ ~Shorter(Vec(maxDistance + RadiusSlack, 0, 0), Offset')
          /\ manual = "zoomIn" =>
                Shorter(Offset', Vec(minDistance + PinSlack, 0, 0))
          /\ manual = "zoomOut" =>
                ~Shorter(Offset', Vec(maxDistance - PinSlack, 0, 0))]_vars

-----------------------------------------------------------------------------
(* Claims about the start, the preset table and the end of a transition.   *)

\* C21 as claimed (Spec): at scene start, before the first frame and before
\* any manual input, the selected preset is Overview, the eye is the
\* Overview preset's eye (0, 6, 14) and lookAt is the Overview preset's
\* lookAt (0, 1.5, 0).
C21_InitialState ==
    (frame = 0 /\ nInputs = 0) =>
        /\ eye = ROOM_VIEWS.overview.position
        /\ lookAt = ROOM_VIEWS.overview.lookAt
        /\ (nSelects = 0 => currentView = "overview")


\* C22 (SpecTable): after any sequence of frames, preset selections, wheel
\* inputs and light toggles, each of the four presets still has the eye and
\* lookAt it was created with, and the selected id is one of the four.
C22_TableImmutable ==
    /\ DOMAIN presets = Views
    /\ \A view \in Views :
          /\ presets[view].position = ROOM_VIEWS[view].position
          /\ presets[view].lookAt = ROOM_VIEWS[view].lookAt
    /\ currentView \in Views

\* C22's case: frames have run after a preset other than Overview was
\* selected, the wheel was turned and both lights were toggled.
C22_Witness ==
    /\ frame >= 2
    /\ nSelects >= 1
    /\ currentView # "overview"
    /\ nInputs >= 1
    /\ nToggles.livingRoom >= 1
    /\ nToggles.bedroom >= 1
    /\ eye # ROOM_VIEWS.overview.position

\* C23 (SpecClamp): clampPosition(p) = p exactly when p is inside the box
\* [-9.8, 9.8] x [0.5, 3.8] x [-3.8, 3.8] and not (|x| < 0.5 with z outside
\* [-1.2, 1.2]); y and z of the result are always the box-clamped y and z;
\* and x differs from the box-clamped x only by the wall correction, which
\* puts it at +0.5 or -0.5.
C23_FixedPoints ==
    applied >= 1 =>
        LET inside ==
                /\ -980000 <= pos.x /\ pos.x <= 980000
                /\ 50000 <= pos.y /\ pos.y <= 380000
                /\ -380000 <= pos.z /\ pos.z <= 380000
            inWall ==
                /\ -50000 < pos.x /\ pos.x < 50000
                /\ (pos.z < -120000 \/ pos.z > 120000)
            boxX == ClampAxis(pos.x, minX, maxX)
        IN  /\ (clamped = pos) <=> (inside /\ ~inWall)
            /\ clamped.y = ClampAxis(pos.y, minY, maxY)
            /\ clamped.z = ClampAxis(pos.z, minZ, maxZ)
            /\ clamped.x # boxX =>
                  /\ inWall
                  /\ clamped.x \in { -50000, 50000 }

\* C23's case: a point in the wall band beside the doorway and above the
\* box is not a fixed point: x is pushed to the band's edge, y is
\* box-clamped and z is kept.
C23_Witness ==
    /\ applied >= 1
    /\ pos = Vec(10000, 600000, 200000)
    /\ clamped = Vec(WallHalfWidth, maxY, 200000)

\* C24 as claimed (SpecTransit): with preset selections only, every
\* transition completes: once frames no longer move the camera, the
\* committed eye is within 0.01 of clampPosition of the selected preset's
\* eye, and with Bedroom selected it is on the bedroom's side of the
\* dividing wall (x >= 0.5), with Living Room selected on the living room's
\* side (x <= -0.5).  A camera at rest stays where it is for every later
\* frame, so a state at rest away from the target is a transition that
\* never completes.
C24_TransitionCompletes ==
    (frame >= 1 /\ nInputs = 0 /\ AtRest) =>
        /\ Within(rendered, clampPosition(Target.position), 1000)
        /\ (currentView = "bedroom" => rendered.x >= WallHalfWidth)
        /\ (currentView = "livingRoom" => rendered.x <= -WallHalfWidth)

=============================================================================
